---- MODULE Spec2Model ----
(***************************************************************************)
(* A model of sysinfo-gtk (src/sysinfo_gtk/main.py): the source readers    *)
(* _cmd and _read_file, the collectors built on them, and the window's     *)
(* loading, refreshing, exporting, benchmarking and welcome handling.      *)
(*                                                                         *)
(* Text is a sequence of atoms.  The separators the code splits on are     *)
(* atoms of their own (" ", "\n", ":", "=", the double quote); every other *)
(* atom is an opaque piece of a word.                                      *)
(***************************************************************************)
EXTENDS Integers, Sequences, FiniteSets, TLC

VARIABLES
    call,           \* the helper, collector or action handler last called
    ret,            \* what that call gave its caller
    running,        \* the process is alive
    launches,       \* how often the program was started
    settings_file,  \* SETTINGS_FILE: whether it exists, and the dict in it
    window,         \* SysInfoApp.window is set
    settings,       \* SysInfoWindow.settings
    modal,          \* the dialog shown over the window: "none", "welcome", "export"
    sections_data,  \* SysInfoWindow._sections_data, in insertion order
    selected,       \* the selected row of _cat_list, 0 for none
    detail,         \* the rows of _detail_list
    subtitle,       \* the subtitle of _title_widget
    status,         \* the text of the _status label
    loaders,        \* how many _load_all threads are at each index of SECTIONS
    benches,        \* the running benchmark threads: the title of each
    idle,           \* the callbacks posted with GLib.idle_add, oldest first
    ui,             \* where the UI thread is inside a handler that loops
    export_file,    \* the exported report: whether it exists, and its lines
    clipboard,      \* the text on the clipboard
    refreshes       \* how often Refresh was clicked in this run

guiVars ==
    <<running, launches, settings_file, window, settings, modal, sections_data,
      selected, detail, subtitle, status, loaders, benches, idle, ui, export_file,
      clipboard, refreshes>>

vars ==
    <<call, ret, running, launches, settings_file, window, settings, modal,
      sections_data, selected, detail, subtitle, status, loaders, benches, idle, ui,
      export_file, clipboard, refreshes>>

(***************************************************************************)
(* Python values: a call returns a value or raises.                        *)
(***************************************************************************)
Ret(v) == [raised |-> FALSE, value |-> v]

Raise(e) == [raised |-> TRUE, exc |-> e]

(***************************************************************************)
(* str methods, over sequences of atoms.                                   *)
(***************************************************************************)
Whitespace == {" ", "\n"}

RECURSIVE LStrip(_)
LStrip(s) ==
    IF s # <<>> /\ Head(s) \in Whitespace THEN LStrip(Tail(s)) ELSE s

RECURSIVE RStrip(_)
RStrip(s) ==
    IF s # <<>> /\ s[Len(s)] \in Whitespace
    THEN RStrip(SubSeq(s, 1, Len(s) - 1))
    ELSE s

\* str.strip()
Strip(s) == RStrip(LStrip(s))

\* str.strip(chars) for a one-atom chars
RECURSIVE StripAtom(_, _)
StripAtom(s, a) ==
    IF s # <<>> /\ Head(s) = a THEN StripAtom(Tail(s), a)
    ELSE IF s # <<>> /\ s[Len(s)] = a THEN StripAtom(SubSeq(s, 1, Len(s) - 1), a)
    ELSE s

\* str.replace(a, "") for a one-atom a
Remove(s, a) == SelectSeq(s, LAMBDA x : x # a)

\* str.split(sep): the pieces between the separators, at least one piece
RECURSIVE SplitOn(_, _)
SplitOn(s, sep) ==
    IF s = <<>> THEN << <<>> >>
    ELSE LET rest == SplitOn(Tail(s), sep)
         IN  IF Head(s) = sep THEN << <<>> >> \o rest
             ELSE << <<Head(s)>> \o Head(rest) >> \o Tail(rest)

\* the index of the first atom of s in set, 0 when there is none
RECURSIVE FirstIn(_, _, _)
FirstIn(s, set, i) ==
    IF i > Len(s) THEN 0
    ELSE IF s[i] \in set THEN i
    ELSE FirstIn(s, set, i + 1)

\* str.split(sep, 1)
Split1(s, sep) ==
    LET i == FirstIn(s, {sep}, 1)
    IN  IF i = 0 THEN <<s>>
        ELSE <<SubSeq(s, 1, i - 1), SubSeq(s, i + 1, Len(s))>>

\* str.split(): the words between runs of whitespace, no empty word
RECURSIVE SplitWS(_)
SplitWS(s) ==
    LET t == LStrip(s)
        i == FirstIn(t, Whitespace, 1)
    IN  IF t = <<>> THEN <<>>
        ELSE IF i = 0 THEN <<t>>
        ELSE <<SubSeq(t, 1, i - 1)>> \o SplitWS(SubSeq(t, i, Len(t)))

\* str.splitlines(): no line for the empty text, none after a final line break
SplitLines(s) ==
    LET parts == SplitOn(s, "\n")
    IN  IF s = <<>> THEN <<>>
        ELSE IF parts[Len(parts)] = <<>> THEN SubSeq(parts, 1, Len(parts) - 1)
        ELSE parts

StartsWith(s, p) == Len(s) >= Len(p) /\ SubSeq(s, 1, Len(p)) = p

\* sep.join(list)
RECURSIVE Join(_, _)
Join(list, sep) ==
    IF list = <<>> THEN <<>>
    ELSE IF Len(list) = 1 THEN list[1]
    ELSE list[1] \o sep \o Join(Tail(list), sep)

(***************************************************************************)
(* dict: an ordered mapping, a sequence of <<key, value>> pairs.           *)
(***************************************************************************)
HasKey(d, k) == \E i \in 1..Len(d) : d[i][1] = k

\* d[k] = v: a known key keeps its place, a new key goes last
DictSet(d, k, v) ==
    IF HasKey(d, k)
    THEN [i \in 1..Len(d) |-> IF d[i][1] = k THEN <<k, v>> ELSE d[i]]
    ELSE Append(d, <<k, v>>)

\* d.get(k, default)
DictGet(d, k, default) ==
    IF HasKey(d, k) THEN d[CHOOSE i \in 1..Len(d) : d[i][1] = k][2] ELSE default

(***************************************************************************)
(* The two source readers.  subprocess.run and open/read either give text  *)
(* or raise; the readers catch everything.                                 *)
(***************************************************************************)
\* what subprocess.run and open().read() can do
RunFailures == {"FileNotFoundError", "TimeoutExpired", "PermissionError"}

OpenFailures == {"FileNotFoundError", "PermissionError", "UnicodeDecodeError"}

Gives(text) == [kind |-> "ok", text |-> text]

Fails(e) == [kind |-> e]

\* the try body of _cmd: r = subprocess.run(...); return r.stdout.strip()
CmdBody(proc) ==
    IF proc.kind = "ok" THEN Ret(Strip(proc.text)) ELSE Raise(proc.kind)

\* _cmd with a handler that lets TimeoutExpired through
CmdLeaksTimeout(proc) ==
    LET r == CmdBody(proc)
    IN  IF r.raised /\ r.exc # "TimeoutExpired" THEN Ret(<<>>) ELSE r

\* _cmd(args, timeout)
Cmd(proc) ==
    LET r == CmdBody(proc)
    IN  IF r.raised THEN Ret(<<>>) ELSE r

\* the try body of _read_file: with open(path) as f: return f.read().strip()
ReadFileBody(file) ==
    IF file.kind = "ok" THEN Ret(Strip(file.text)) ELSE Raise(file.kind)

\* _read_file(path)
ReadFile(file) ==
    LET r == ReadFileBody(file)
    IN  IF r.raised THEN Ret(<<>>) ELSE r

(***************************************************************************)
(* Numbers in text, and the order sorted() puts words in.                  *)
(***************************************************************************)
\* int(s) of the decimal words of the sample texts
IntOf ==
    ("0" :> 0) @@ ("1048576" :> 1048576) @@ ("2097152" :> 2097152)
    @@ ("524288" :> 524288) @@ ("262144" :> 262144)

\* int(float(s)) of the words float() parses
FloatIntOf == IntOf @@ ("93784.12" :> 93784) @@ ("59.90" :> 59)

IsInt(w) == Len(w) = 1 /\ w[1] \in DOMAIN IntOf

IsFloat(w) == Len(w) = 1 /\ w[1] \in DOMAIN FloatIntOf

\* the user names of the sample texts, in code point order
AtomOrder == <<"alice", "bob", "root">>

Rank(a) == CHOOSE i \in 1..Len(AtomOrder) : AtomOrder[i] = a

\* s < t, as Python compares strings
RECURSIVE StrLess(_, _)
StrLess(s, t) ==
    IF t = <<>> THEN FALSE
    ELSE IF s = <<>> THEN TRUE
    ELSE IF Head(s) = Head(t) THEN StrLess(Tail(s), Tail(t))
    ELSE Rank(Head(s)) < Rank(Head(t))

\* sorted(set)
RECURSIVE Sorted(_)
Sorted(set) ==
    IF set = {} THEN <<>>
    ELSE LET m == CHOOSE x \in set : \A y \in set \ {x} : StrLess(x, y)
         IN  <<m>> \o Sorted(set \ {m})

\* os.environ.get(key, default)
EnvironGet(environ, key, default) == DictGet(environ, key, default)

(***************************************************************************)
(* collect_summary                                                         *)
(***************************************************************************)
\* the first words of the non-blank lines of who's output
WhoUsers(who) ==
    LET lines == SplitLines(who)
    IN  {SplitWS(lines[i])[1] : i \in {j \in 1..Len(lines) : Strip(lines[j]) # <<>>}}

\* f"{days}d {hours}h {mins}m" of int(float(uptime_s))
UptimeText(uptime_s) ==
    LET secs == FloatIntOf[uptime_s[1]]
        days == secs \div 86400
        rem1 == secs % 86400
        hours == rem1 \div 3600
        rem2 == rem1 % 3600
        mins == rem2 \div 60
    IN  <<ToString(days), "d", " ", ToString(hours), "h", " ", ToString(mins), "m">>

\* uptime_s = _read_file("/proc/uptime").split()[0] if os.path.exists(...) else ""
UptimeWord(env) ==
    IF env.uptime_exists
    THEN LET words == SplitWS(ReadFile(env.uptime).value)
         IN  IF words = <<>> THEN Raise("IndexError") ELSE Ret(words[1])
    ELSE Ret(<<>>)

collect_summary(env) ==
    LET os_line == SplitOn(ReadFile(env.os_release).value, "\n")[1]
        os_name == StripAtom(Remove(os_line, "PRETTY_NAME="), "\"")
        i1 == DictSet(<<>>, <<"Hostname">>, env.node)
        i2 == DictSet(i1, <<"OS">>, IF os_name # <<>> THEN os_name ELSE env.platform)
        i3 == DictSet(i2, <<"Kernel">>, env.release)
        i4 == DictSet(i3, <<"Architecture">>, env.machine)
        i5 == DictSet(i4, <<"Desktop">>,
                      EnvironGet(env.environ, "XDG_CURRENT_DESKTOP",
                                 EnvironGet(env.environ, "DESKTOP_SESSION", <<"Unknown">>)))
        uptime_s == UptimeWord(env)
    IN  IF uptime_s.raised THEN uptime_s
        ELSE IF uptime_s.value # <<>> /\ ~IsFloat(uptime_s.value) THEN Raise("ValueError")
        ELSE LET i6 == IF uptime_s.value # <<>>
                       THEN DictSet(i5, <<"Uptime">>, UptimeText(uptime_s.value))
                       ELSE i5
                 who == Cmd(env.who).value
                 i7 == IF who # <<>>
                       THEN DictSet(i6, <<"Logged in users">>,
                                    Join(Sorted(WhoUsers(who)), <<",", " ">>))
                       ELSE i6
             IN  Ret(<<"Summary", "computer-symbolic", i7>>)

(***************************************************************************)
(* collect_memory                                                          *)
(***************************************************************************)
\* the loop over /proc/meminfo: vals[key] = int(val) for the lines with one colon
RECURSIVE MeminfoVals(_, _)
MeminfoVals(lines, vals) ==
    IF lines = <<>> THEN Ret(vals)
    ELSE LET parts == SplitOn(Head(lines), ":")
         IN  IF Len(parts) # 2 THEN MeminfoVals(Tail(lines), vals)
             ELSE LET key == Strip(parts[1])
                      words == SplitWS(Strip(parts[2]))
                  IN  IF words = <<>> THEN Raise("IndexError")
                      ELSE IF ~IsInt(words[1]) THEN Raise("ValueError")
                      ELSE MeminfoVals(Tail(lines),
                                       DictSet(vals, key, IntOf[words[1][1]]))

\* the loop over dmidecode's lines: Type ends it, Speed does not
RECURSIVE DmiInfo(_, _)
DmiInfo(lines, info) ==
    IF lines = <<>> THEN info
    ELSE LET line == Strip(Head(lines))
             known == \A i \in 1..Len(line) : line[i] # "Unknown"
         IN  IF StartsWith(line, <<"Type", ":">>) /\ known
             THEN DictSet(info, <<"Type">>, Strip(Split1(line, ":")[2]))
             ELSE IF StartsWith(line, <<"Speed", ":">>) /\ known
             THEN DmiInfo(Tail(lines),
                          DictSet(info, <<"Speed">>, Strip(Split1(line, ":")[2])))
             ELSE DmiInfo(Tail(lines), info)

MemoryInfo(env, vals) ==
    LET total == DictGet(vals, <<"MemTotal">>, 0)
        avail == DictGet(vals, <<"MemAvailable">>, DictGet(vals, <<"MemFree">>, 0))
        used == total - avail
        swap_total == DictGet(vals, <<"SwapTotal">>, 0)
        swap_free == DictGet(vals, <<"SwapFree">>, 0)
        i1 == DictSet(<<>>, <<"Total">>,
                      <<ToString(total \div 1024), " ", "MB", " ", "(",
                        ToString(total \div 1048576), ".0", " ", "GB", ")">>)
        i2 == DictSet(i1, <<"Available">>, <<ToString(avail \div 1024), " ", "MB">>)
        i3 == DictSet(i2, <<"Used">>,
                      IF total # 0
                      THEN <<ToString(used \div 1024), " ", "MB", " ", "(",
                             ToString((used * 100) \div total), "%", ")">>
                      ELSE <<"?">>)
        i4 == IF swap_total # 0
              THEN DictSet(DictSet(i3, <<"Swap total">>,
                                   <<ToString(swap_total \div 1024), " ", "MB">>),
                           <<"Swap used">>,
                           <<ToString((swap_total - swap_free) \div 1024), " ", "MB">>)
              ELSE i3
        dmi_sudo == Cmd(env.dmi_sudo).value
        dmi_mem == IF dmi_sudo = <<>> THEN Cmd(env.dmi).value ELSE dmi_sudo
    IN  IF dmi_mem # <<>> THEN DmiInfo(SplitLines(dmi_mem), i4) ELSE i4

collect_memory(env) ==
    IF env.meminfo_exists
    THEN LET vals == MeminfoVals(SplitLines(ReadFile(env.meminfo).value), <<>>)
         IN  IF vals.raised THEN vals
             ELSE Ret(<<"Memory", "memory-symbolic", MemoryInfo(env, vals.value)>>)
    ELSE Ret(<<"Memory", "memory-symbolic", <<>> >>)

(***************************************************************************)
(* collect_network                                                         *)
(***************************************************************************)
\* the loop over the lines of ip -brief addr
RECURSIVE IpInfo(_, _)
IpInfo(lines, info) ==
    IF lines = <<>> THEN info
    ELSE LET parts == SplitWS(Head(lines))
         IN  IF Len(parts) >= 3
             THEN IpInfo(Tail(lines),
                         DictSet(info, parts[1],
                                 parts[2] \o <<" ", "-", " ">>
                                 \o Join(SubSeq(parts, 3, Len(parts)), <<" ">>)))
             ELSE IF Len(parts) = 2
             THEN IpInfo(Tail(lines), DictSet(info, parts[1], parts[2]))
             ELSE IpInfo(Tail(lines), info)

\* dns = [l.split()[1] for l in resolv.splitlines() if l.startswith("nameserver")]
RECURSIVE DnsServers(_)
DnsServers(lines) ==
    IF lines = <<>> THEN Ret(<<>>)
    ELSE IF ~StartsWith(Head(lines), <<"nameserver">>) THEN DnsServers(Tail(lines))
    ELSE LET words == SplitWS(Head(lines))
             rest == DnsServers(Tail(lines))
         IN  IF Len(words) < 2 THEN Raise("IndexError")
             ELSE IF rest.raised THEN rest
             ELSE Ret(<<words[2]>> \o rest.value)

\* ifconfig[:500]; every atom of ifconfig's sample output is one character
IfconfigLimit == 500

collect_network(env) ==
    LET ip_out == Cmd(env.ip).value
        ifconfig == Cmd(env.ifconfig).value
        i1 == IF ip_out # <<>> THEN IpInfo(SplitLines(ip_out), <<>>)
              ELSE IF ifconfig # <<>>
              THEN DictSet(<<>>, <<"Network">>,
                           SubSeq(ifconfig, 1,
                                  IF Len(ifconfig) < IfconfigLimit
                                  THEN Len(ifconfig) ELSE IfconfigLimit))
              ELSE <<>>
        dns == DnsServers(SplitLines(ReadFile(env.resolv).value))
    IN  IF dns.raised THEN dns
        ELSE Ret(<<"Network", "network-wired-symbolic",
                   IF dns.value # <<>>
                   THEN DictSet(i1, <<"DNS servers">>, Join(dns.value, <<",", " ">>))
                   ELSE i1>>)

(***************************************************************************)
(* The sources the helpers and the collectors are applied to.              *)
(***************************************************************************)
MaxTextLen == 3

TextAtoms == {"a", " ", "\n"}

\* every text of at most MaxTextLen atoms
Texts == UNION {[1..n -> TextAtoms] : n \in 0..MaxTextLen}

OsReleaseText ==
    <<"PRETTY_NAME=", "\"", "Debian", " ", "12", "\"", "\n", "NAME=", "\"", "Debian", "\"">>

ProcUptimeText == <<"93784.12", " ", "59.90", "\n">>

WhoText ==
    <<"root", " ", "tty1", "\n", "alice", " ", "pts/0", "\n", "root", " ", "pts/1", "\n">>

MeminfoText ==
    <<"MemTotal", ":", " ", " ", "2097152", " ", "kB", "\n",
      "MemFree", ":", " ", "524288", " ", "kB", "\n",
      "MemAvailable", ":", " ", "1048576", " ", "kB", "\n",
      "SwapTotal", ":", " ", "262144", " ", "kB", "\n",
      "SwapFree", ":", " ", "262144", " ", "kB", "\n">>

DmiText ==
    <<"Memory Device", "\n", " ", "Speed", ":", " ", "3200 MT/s", "\n",
      " ", "Type", ":", " ", "DDR4", "\n", " ", "Type Detail", ":", " ", "Synchronous">>

IpText ==
    <<"lo", " ", "UNKNOWN", " ", "127.0.0.1/8", " ", "::1/128", "\n",
      "eth0", " ", "UP", " ", "10.0.0.2/24", "\n", "wlan0", " ", "DOWN">>

IfconfigText == <<"e", "t", "h", "0">>

ResolvText ==
    <<"#", " ", "resolv", "\n", "nameserver", " ", "10.0.0.1", "\n",
      "nameserver", " ", "1.1.1.1", "\n">>

\* a utility run: its output, no output, or a failure of subprocess.run
ProcOutcomes(text) == {Gives(text), Gives(<<>>)} \cup {Fails(e) : e \in RunFailures}

\* a file that exists: its content, no content, or a failure to read it
FileOutcomes(text) == {Gives(text), Gives(<<>>), Fails("PermissionError")}

\* a file that may be missing
AnyFileOutcomes(text) == FileOutcomes(text) \cup {Fails("FileNotFoundError")}

SummaryEnvs ==
    {[node |-> <<"host">>, platform |-> <<"Linux-6.1-x86_64">>, release |-> <<"6.1">>,
      machine |-> <<"x86_64">>, environ |-> environ, os_release |-> os_release,
      uptime_exists |-> uptime_exists, uptime |-> uptime, who |-> who] :
        environ \in {<<>>, << <<"DESKTOP_SESSION", <<"gnome">> >> >>},
        os_release \in AnyFileOutcomes(OsReleaseText),
        uptime_exists \in BOOLEAN,
        uptime \in AnyFileOutcomes(ProcUptimeText),
        who \in ProcOutcomes(WhoText)}

MemoryEnvs ==
    {[meminfo_exists |-> meminfo_exists, meminfo |-> meminfo,
      dmi_sudo |-> dmi_sudo, dmi |-> dmi] :
        meminfo_exists \in BOOLEAN,
        meminfo \in AnyFileOutcomes(MeminfoText),
        dmi_sudo \in ProcOutcomes(DmiText),
        dmi \in ProcOutcomes(DmiText)}

NetworkEnvs ==
    {[ip |-> ip, ifconfig |-> ifconfig, resolv |-> resolv] :
        ip \in ProcOutcomes(IpText),
        ifconfig \in ProcOutcomes(IfconfigText),
        resolv \in AnyFileOutcomes(ResolvText)}

\* os.path.exists(path) agrees with what open(path) does, but for the rights
Consistent(exists, file) == (file.kind = "FileNotFoundError") <=> ~exists

(***************************************************************************)
(* gettext and the names that shadow it.  The module binds _ to            *)
(* gettext.gettext; a function that assigns _ or takes *_ has a local _.   *)
(***************************************************************************)
\* _(text) where _ is: "gettext" (the module's), "tuple" (a *_ parameter),
\* "unbound" (a local not yet assigned), or a str a tuple was unpacked into
CallUnderscore(binding, text) ==
    IF binding = "gettext" THEN Ret(text)
    ELSE IF binding = "unbound" THEN Raise("UnboundLocalError")
    ELSE Raise("TypeError")

(***************************************************************************)
(* SECTIONS and what a collector can give _load_all.                       *)
(***************************************************************************)
\* the collectors of SECTIONS: the name and icon each returns, and its str()
AllSections ==
    << <<"collect_summary", "Summary",
          "computer-symbolic",
          "<function collect_summary>">>,
       <<"collect_cpu", "Processor",
          "processor-symbolic",
          "<function collect_cpu>">>,
       <<"collect_memory", "Memory",
          "memory-symbolic",
          "<function collect_memory>">>,
       <<"collect_storage", "Storage",
          "drive-harddisk-symbolic",
          "<function collect_storage>">>,
       <<"collect_gpu", "Graphics",
          "video-display-symbolic",
          "<function collect_gpu>">>,
       <<"collect_display", "Display",
          "video-display-symbolic",
          "<function collect_display>">>,
       <<"collect_network", "Network",
          "network-wired-symbolic",
          "<function collect_network>">>,
       <<"collect_sensors", "Sensors",
          "sensors-temperature-symbolic",
          "<function collect_sensors>">>,
       <<"collect_battery", "Battery",
          "battery-symbolic",
          "<function collect_battery>">>,
       <<"collect_pci", "PCI Devices",
          "expansion-card-symbolic",
          "<function collect_pci>">>,
       <<"collect_usb", "USB Devices",
          "drive-removable-media-symbolic",
          "<function collect_usb>">>,
       <<"collect_filesystems", "Filesystems",
          "drive-multidisk-symbolic",
          "<function collect_filesystems>">>,
       <<"collect_kernel_modules", "Kernel Modules",
          "application-x-firmware-symbolic",
          "<function collect_kernel_modules>">>,
       <<"collect_environment", "Environment",
          "preferences-other-symbolic",
          "<function collect_environment>">> >>

\* the model runs the first NumSections collectors of the list
NumSections == 2

SECTIONS == [i \in 1..NumSections |-> AllSections[i][1]]

SectionIndex(collector) == CHOOSE i \in 1..Len(AllSections) : AllSections[i][1] = collector

\* the mapping a collector returns: plain entries; entries with a separator
\* ("" -> "") and a heading with no value, as collect_storage builds them; or
\* no entry, as collect_kernel_modules without lsmod
InfoOf(collector) ==
    LET i == SectionIndex(collector)
    IN  IF i % 3 = 1 THEN << <<"k1", "v1">>, <<"k2", "v2">> >>
        ELSE IF i % 3 = 2 THEN << <<"k1", "v1">>, <<"", "">>, <<"k2", "">> >>
        ELSE <<>>

\* collector(): the triple (title, icon, mapping), or an exception
CollectorOutcomes(collector) ==
    LET s == AllSections[SectionIndex(collector)]
    IN  {Ret(<<s[2], s[3], InfoOf(collector)>>), Raise("boom")}

\* str(collector)
FunctionRepr(collector) == AllSections[SectionIndex(collector)][4]

\* the body of the loop of _load_all: what is stored for a collector
LoadEntry(collector, outcome) ==
    IF outcome.raised
    THEN <<FunctionRepr(collector), "", << <<"Error", outcome.exc>> >> >>
    ELSE outcome.value

(***************************************************************************)
(* The window.                                                             *)
(***************************************************************************)
MaxLaunch == 2

MaxRefresh == 1

Status(kind, arg) == [kind |-> kind, arg |-> arg]

UiIdle == [op |-> "idle"]

Node == "host"

LoadingRow == <<"Loading...", "">>

\* the row _show_section builds for an entry: set_title(key), and
\* set_subtitle(str(value)) when the value is not empty; a new ActionRow has
\* the subtitle ""
ActionRow(key, value) == <<key, IF value # "" THEN value ELSE "">>

\* the loop of _show_section with the test "if not value: continue"
RECURSIVE SectionRowsSkipsNoValue(_)
SectionRowsSkipsNoValue(info) ==
    IF info = <<>> THEN <<>>
    ELSE IF Head(info)[2] = "" THEN SectionRowsSkipsNoValue(Tail(info))
    ELSE <<ActionRow(Head(info)[1], Head(info)[2])>>
         \o SectionRowsSkipsNoValue(Tail(info))

\* the rows _show_section appends for a mapping
RECURSIVE SectionRows(_)
SectionRows(info) ==
    IF info = <<>> THEN <<>>
    ELSE IF Head(info)[1] = "" /\ Head(info)[2] = "" THEN SectionRows(Tail(info))
    ELSE <<ActionRow(Head(info)[1], Head(info)[2])>> \o SectionRows(Tail(info))

\* _show_section(collector): the detail list after it
ShowSectionDetail(data, collector) ==
    IF ~HasKey(data, collector) THEN <<LoadingRow>>
    ELSE SectionRows(DictGet(data, collector, <<>>)[3])

\* _show_section(collector): the subtitle after it
ShowSectionSubtitle(data, collector, old) ==
    IF ~HasKey(data, collector) THEN old
    ELSE DictGet(data, collector, <<>>)[1]

NoFile == [exists |-> FALSE]

\* _load_settings() that never reads the file
LoadSettingsFresh(file) == [welcome_shown |-> FALSE]

\* _load_settings()
LoadSettings(file) ==
    IF file.exists THEN file.json ELSE [welcome_shown |-> FALSE]

\* _save_settings(s)
SaveSettings(s) == [exists |-> TRUE, json |-> s]

RemoveAt(seq, i) == SubSeq(seq, 1, i - 1) \o SubSeq(seq, i + 1, Len(seq))

\* no _load_all thread
NoLoaders == [i \in 1..(NumSections + 1) |-> 0]

\* threading.Thread(target=self._load_all, daemon=True).start()
StartLoader(ls) == [ls EXCEPT ![1] = @ + 1]

\* the state of a process that is not running
Stopped ==
    /\ window = FALSE
    /\ settings = [welcome_shown |-> FALSE]
    /\ modal = "none"
    /\ sections_data = <<>>
    /\ selected = 0
    /\ detail = <<>>
    /\ subtitle = ""
    /\ status = Status("none", "")
    /\ loaders = NoLoaders
    /\ benches = <<>>
    /\ idle = <<>>
    /\ ui = UiIdle
    /\ clipboard = <<>>
    /\ refreshes = 0

\* before the program is started, on a machine where Get Started was
\* clicked in an earlier run
Init ==
    /\ call = [fn |-> "none"]
    /\ ret = Ret(<<>>)
    /\ running = FALSE
    /\ launches = 0
    /\ settings_file = SaveSettings([welcome_shown |-> TRUE])
    /\ export_file = NoFile
    /\ Stopped

\* before the program is started for the first time: no settings file
InitFirstRun ==
    /\ call = [fn |-> "none"]
    /\ ret = Ret(<<>>)
    /\ running = FALSE
    /\ launches = 0
    /\ settings_file = NoFile
    /\ export_file = NoFile
    /\ Stopped

\* main(): SysInfoApp() and app.run()
Launch ==
    /\ ~running
    /\ launches < MaxLaunch
    /\ running' = TRUE
    /\ launches' = launches + 1
    /\ UNCHANGED <<call, ret, settings_file, window, settings, modal, sections_data,
                   selected, detail, subtitle, status, loaders, benches, idle, ui,
                   export_file, clipboard, refreshes>>

\* do_activate, with SysInfoWindow.__init__ and _populate_categories
Activate ==
    /\ running
    /\ ui = UiIdle
    /\ IF window THEN UNCHANGED vars
       ELSE /\ window' = TRUE
            /\ settings' = LoadSettings(settings_file)
            /\ sections_data' = <<>>
            /\ subtitle' = Node
            /\ status' = Status("Loading...", "")
            /\ idle' = IF ~settings'.welcome_shown
                       THEN Append(idle, [cb |-> "_show_welcome"])
                       ELSE idle
            /\ selected' = 1
            /\ detail' = ShowSectionDetail(sections_data', SECTIONS[1])
            /\ loaders' = StartLoader(loaders)
            /\ UNCHANGED <<call, ret, running, launches, settings_file, modal, benches,
                           ui, export_file, clipboard, refreshes>>

\* _on_quit, closing the window, or the end of the process: the daemon
\* threads and everything in memory go, the files stay
Quit ==
    /\ running
    /\ running' = FALSE
    /\ call' = [fn |-> "none"]
    /\ ret' = Ret(<<>>)
    /\ window' = FALSE
    /\ settings' = [welcome_shown |-> FALSE]
    /\ modal' = "none"
    /\ sections_data' = <<>>
    /\ selected' = 0
    /\ detail' = <<>>
    /\ subtitle' = ""
    /\ status' = Status("none", "")
    /\ loaders' = NoLoaders
    /\ benches' = <<>>
    /\ idle' = <<>>
    /\ ui' = UiIdle
    /\ clipboard' = <<>>
    /\ refreshes' = 0
    /\ UNCHANGED <<launches, settings_file, export_file>>

\* _show_welcome, run from the idle queue
ShowWelcome ==
    /\ ui = UiIdle
    /\ idle # <<>> /\ Head(idle).cb = "_show_welcome"
    /\ idle' = Tail(idle)
    /\ modal' = "welcome"
    /\ UNCHANGED <<call, ret, running, launches, settings_file, window, settings,
                   sections_data, selected, detail, subtitle, status, loaders, benches,
                   ui, export_file, clipboard, refreshes>>

\* _on_welcome_close: Get Started
OnWelcomeClose ==
    /\ ui = UiIdle
    /\ modal = "welcome"
    /\ settings' = [settings EXCEPT !.welcome_shown = TRUE]
    /\ settings_file' = SaveSettings(settings')
    /\ modal' = "none"
    /\ UNCHANGED <<call, ret, running, launches, window, sections_data, selected,
                   detail, subtitle, status, loaders, benches, idle, ui, export_file,
                   clipboard, refreshes>>

\* the welcome dialog closed some other way (Escape): no handler runs
DismissWelcome ==
    /\ ui = UiIdle
    /\ modal = "welcome"
    /\ modal' = "none"
    /\ UNCHANGED <<call, ret, running, launches, settings_file, window, settings,
                   sections_data, selected, detail, subtitle, status, loaders, benches,
                   idle, ui, export_file, clipboard, refreshes>>

(***************************************************************************)
(* Loading: the _load_all threads and the _on_load_done callback.          *)
(***************************************************************************)
\* that turn without the try: a collector's exception ends the thread's pass
LoaderCollectStops(i) ==
    /\ i \in 1..NumSections
    /\ loaders[i] > 0
    /\ \E outcome \in CollectorOutcomes(SECTIONS[i]) :
           IF outcome.raised
           THEN /\ loaders' = [loaders EXCEPT ![i] = @ - 1]
                /\ UNCHANGED sections_data
           ELSE /\ sections_data' = DictSet(sections_data, SECTIONS[i], outcome.value)
                /\ loaders' = [loaders EXCEPT ![i] = @ - 1, ![i + 1] = @ + 1]
    /\ UNCHANGED <<call, ret, running, launches, settings_file, window, settings,
                   modal, selected, detail, subtitle, status, benches, idle, ui,
                   export_file, clipboard, refreshes>>

\* one turn of the loop of _load_all in a thread that is at index i: call
\* the collector, store what it gave
LoaderCollect(i) ==
    /\ i \in 1..NumSections
    /\ loaders[i] > 0
    /\ \E outcome \in CollectorOutcomes(SECTIONS[i]) :
           sections_data' = DictSet(sections_data, SECTIONS[i],
                                    LoadEntry(SECTIONS[i], outcome))
    /\ loaders' = [loaders EXCEPT ![i] = @ - 1, ![i + 1] = @ + 1]
    /\ UNCHANGED <<call, ret, running, launches, settings_file, window, settings,
                   modal, selected, detail, subtitle, status, benches, idle, ui,
                   export_file, clipboard, refreshes>>

\* the end of _load_all with the status label set from the thread itself
LoaderPostSetsStatus ==
    /\ loaders[NumSections + 1] > 0
    /\ status' = Status("items loaded", 0)
    /\ loaders' = [loaders EXCEPT ![NumSections + 1] = @ - 1]
    /\ UNCHANGED <<call, ret, running, launches, settings_file, window, settings,
                   modal, sections_data, selected, detail, subtitle, benches, idle,
                   ui, export_file, clipboard, refreshes>>

\* the end of _load_all in a thread: GLib.idle_add(self._on_load_done)
LoaderPost ==
    /\ loaders[NumSections + 1] > 0
    /\ idle' = Append(idle, [cb |-> "_on_load_done"])
    /\ loaders' = [loaders EXCEPT ![NumSections + 1] = @ - 1]
    /\ UNCHANGED <<call, ret, running, launches, settings_file, window, settings,
                   modal, sections_data, selected, detail, subtitle, status, benches,
                   ui, export_file, clipboard, refreshes>>

\* _on_load_done starts: the iterator over _sections_data.values() notes the size
OnLoadDoneBegin ==
    /\ ui = UiIdle
    /\ idle # <<>> /\ Head(idle).cb = "_on_load_done"
    /\ idle' = Tail(idle)
    /\ ui' = [op |-> "count", size |-> Len(sections_data), pos |-> 0, acc |-> 0]
    /\ UNCHANGED <<call, ret, running, launches, settings_file, window, settings,
                   modal, sections_data, selected, detail, subtitle, status, loaders,
                   benches, export_file, clipboard, refreshes>>

\* one next() of that iterator: RuntimeError when the dict changed size,
\* else the next value, else the end of the sum, set_text and _show_section
OnLoadDoneStep ==
    /\ ui.op = "count"
    /\ IF Len(sections_data) # ui.size
       THEN /\ ui' = UiIdle
            /\ UNCHANGED <<detail, subtitle, status>>
       ELSE IF ui.pos < ui.size
       THEN /\ ui' = [ui EXCEPT !.pos = @ + 1,
                                !.acc = @ + Len(sections_data[ui.pos + 1][2][3])]
            /\ UNCHANGED <<detail, subtitle, status>>
       ELSE /\ ui' = UiIdle
            /\ status' = Status("items loaded", ui.acc)
            /\ IF selected # 0
               THEN /\ detail' = ShowSectionDetail(sections_data, SECTIONS[selected])
                    /\ subtitle' = ShowSectionSubtitle(sections_data, SECTIONS[selected],
                                                       subtitle)
               ELSE UNCHANGED <<detail, subtitle>>
    /\ UNCHANGED <<call, ret, running, launches, settings_file, window, settings,
                   modal, sections_data, selected, loaders, benches, idle,
                   export_file, clipboard, refreshes>>

(***************************************************************************)
(* The handlers of the window's widgets.                                   *)
(***************************************************************************)
\* the window takes clicks: it exists, no dialog is over it, no handler runs
Clickable == window /\ modal = "none" /\ ui = UiIdle

\* _on_cat_selected(row) for another row
OnCatSelected(i) ==
    /\ Clickable
    /\ i \in 1..NumSections
    /\ i # selected
    /\ selected' = i
    /\ detail' = ShowSectionDetail(sections_data, SECTIONS[i])
    /\ subtitle' = ShowSectionSubtitle(sections_data, SECTIONS[i], subtitle)
    /\ UNCHANGED <<call, ret, running, launches, settings_file, window, settings,
                   modal, sections_data, status, loaders, benches, idle, ui,
                   export_file, clipboard, refreshes>>

\* _on_cat_selected(None): the row is unselected and nothing is shown anew
OnCatUnselected ==
    /\ Clickable
    /\ selected # 0
    /\ selected' = 0
    /\ UNCHANGED <<call, ret, running, launches, settings_file, window, settings,
                   modal, sections_data, detail, subtitle, status, loaders, benches,
                   idle, ui, export_file, clipboard, refreshes>>

\* _on_refresh without the new _load_all thread
OnRefreshOnlyClears ==
    /\ Clickable
    /\ refreshes < MaxRefresh
    /\ refreshes' = refreshes + 1
    /\ status' = Status("Refreshing...", "")
    /\ sections_data' = <<>>
    /\ UNCHANGED <<call, ret, running, launches, settings_file, window, settings,
                   modal, selected, detail, subtitle, loaders, benches, idle, ui,
                   export_file, clipboard>>

\* _on_refresh
OnRefresh ==
    /\ Clickable
    /\ refreshes < MaxRefresh
    /\ refreshes' = refreshes + 1
    /\ status' = Status("Refreshing...", "")
    /\ sections_data' = <<>>
    /\ loaders' = StartLoader(loaders)
    /\ UNCHANGED <<call, ret, running, launches, settings_file, window, settings,
                   modal, selected, detail, subtitle, benches, idle, ui, export_file,
                   clipboard>>

\* the text _on_copy_section builds, line by line
RECURSIVE CopyLines(_)
CopyLines(info) ==
    IF info = <<>> THEN <<>>
    ELSE << <<Head(info)[1], ": ", Head(info)[2]>> >> \o CopyLines(Tail(info))

\* _on_copy_section: name, _, info = data makes _ a local, the icon, so the
\* final _("Section copied: %s") raises after the clipboard is set
OnCopySection ==
    /\ Clickable
    /\ IF selected = 0 \/ ~HasKey(sections_data, SECTIONS[selected])
       THEN UNCHANGED <<clipboard, status>>
       ELSE LET data == DictGet(sections_data, SECTIONS[selected], <<>>)
                text == CallUnderscore(data[2], "Section copied")
            IN  /\ clipboard' = << <<"=== ", data[1], " ===">> >> \o CopyLines(data[3])
                /\ status' = IF text.raised THEN status
                             ELSE Status(text.value, data[1])
    /\ UNCHANGED <<call, ret, running, launches, settings_file, window, settings,
                   modal, sections_data, selected, detail, subtitle, loaders, benches,
                   idle, ui, export_file, refreshes>>

(***************************************************************************)
(* Export.                                                                 *)
(***************************************************************************)
ExportPath == "report.txt"

\* _on_export: the file dialog opens over the window
OnExport ==
    /\ Clickable
    /\ modal' = "export"
    /\ UNCHANGED <<call, ret, running, launches, settings_file, window, settings,
                   sections_data, selected, detail, subtitle, status, loaders, benches,
                   idle, ui, export_file, clipboard, refreshes>>

\* _on_export_done starts: save_finish or open raise (nothing happens), or the
\* file is opened for writing and is empty
OnExportDone ==
    /\ ui = UiIdle
    /\ modal = "export"
    /\ modal' = "none"
    /\ \E result \in {"saved", "dismissed", "open failed"} :
           IF result = "saved"
           THEN /\ export_file' = [exists |-> TRUE, lines |-> <<>>]
                /\ ui' = [op |-> "export", i |-> 1, underscore |-> "unbound"]
           ELSE UNCHANGED <<export_file, ui>>
    /\ UNCHANGED <<call, ret, running, launches, settings_file, window, settings,
                   sections_data, selected, detail, subtitle, status, loaders, benches,
                   idle, clipboard, refreshes>>

\* the lines written for one stored section
RECURSIVE ExportEntries(_)
ExportEntries(info) ==
    IF info = <<>> THEN <<>>
    ELSE << <<"  ", Head(info)[1], ": ", Head(info)[2]>> >> \o ExportEntries(Tail(info))

ExportBlock(data) ==
    << <<"">>, <<"=== ", data[1], " ===">> >> \o ExportEntries(data[3])

\* one turn of the loop of _on_export_done, and after the last the status:
\* name, _, info = data makes _ a local, so _("Report exported to %s") raises
\* (TypeError, or UnboundLocalError when nothing was stored) into except: pass
OnExportStep ==
    /\ ui.op = "export"
    /\ IF ui.i <= NumSections
       THEN /\ IF HasKey(sections_data, SECTIONS[ui.i])
               THEN LET data == DictGet(sections_data, SECTIONS[ui.i], <<>>)
                    IN  /\ export_file' = [export_file EXCEPT
                                                !.lines = @ \o ExportBlock(data)]
                        /\ ui' = [ui EXCEPT !.i = @ + 1, !.underscore = data[2]]
               ELSE /\ ui' = [ui EXCEPT !.i = @ + 1]
                    /\ UNCHANGED export_file
            /\ UNCHANGED status
       ELSE LET text == CallUnderscore(ui.underscore, "Report exported to")
            IN  /\ status' = IF text.raised THEN status
                             ELSE Status(text.value, ExportPath)
                /\ ui' = UiIdle
                /\ UNCHANGED export_file
    /\ UNCHANGED <<call, ret, running, launches, settings_file, window, settings,
                   modal, sections_data, selected, detail, subtitle, loaders, benches,
                   idle, clipboard, refreshes>>

(***************************************************************************)
(* Benchmarks.                                                             *)
(***************************************************************************)
\* the handlers of bench-cpu, bench-mem and bench-disk with their titles
BenchHandlers == {"_on_bench_cpu", "_on_bench_mem", "_on_bench_disk"}

BenchTitle(handler) ==
    CASE handler = "_on_bench_cpu" -> "CPU Benchmark"
      [] handler = "_on_bench_mem" -> "Memory Benchmark"
      [] handler = "_on_bench_disk" -> "Disk Benchmark"

\* run_benchmark_cpu, run_benchmark_memory, run_benchmark_disk: the mapping
BenchResults(handler) ==
    CASE handler = "_on_bench_cpu" ->
             << <<"Test", "Prime numbers up to 100,000">>, <<"Primes found", "9592">>,
                <<"Time", "t s">>, <<"Score", "n">> >>
      [] handler = "_on_bench_mem" ->
             << <<"Test", "Memory copy 10x10 MB">>, <<"Time", "t s">>,
                <<"Bandwidth", "n MB/s">> >>
      [] handler = "_on_bench_disk" ->
             << <<"Test", "Disk I/O 50 MB">>, <<"Write", "n MB/s (t s)">>,
                <<"Read", "n MB/s (t s)">> >>

\* _run_bench(title, bench_func)
RunBench(title, handler) ==
    IF ~window
    THEN UNCHANGED <<status, benches>>
    ELSE /\ status' = Status("Running benchmark", title)
         /\ benches' = Append(benches, [title |-> title, handler |-> handler])

\* _on_bench_cpu(self, *_) and its two likes: _ is the tuple of the signal's
\* arguments, so _("CPU Benchmark") raises before _run_bench is called
OnBench(handler) ==
    /\ running
    /\ ui = UiIdle
    /\ window => modal = "none"
    /\ LET title == CallUnderscore("tuple", BenchTitle(handler))
       IN  /\ call' = [fn |-> handler]
           /\ IF title.raised
              THEN /\ ret' = title
                   /\ UNCHANGED <<status, benches>>
              ELSE /\ ret' = Ret(<<>>)
                   /\ RunBench(title.value, handler)
    /\ UNCHANGED <<running, launches, settings_file, window, settings, modal,
                   sections_data, selected, detail, subtitle, loaders, idle, ui,
                   export_file, clipboard, refreshes>>

\* run() in a benchmark thread: bench_func(), then GLib.idle_add
BenchThreadRun(t) ==
    /\ t \in 1..Len(benches)
    /\ idle' = Append(idle, [cb |-> "_show_benchmark_result",
                             title |-> benches[t].title,
                             results |-> BenchResults(benches[t].handler)])
    /\ benches' = RemoveAt(benches, t)
    /\ UNCHANGED <<call, ret, running, launches, settings_file, window, settings,
                   modal, sections_data, selected, detail, subtitle, status, loaders,
                   ui, export_file, clipboard, refreshes>>

\* _show_benchmark_result(title, results), run from the idle queue
ShowBenchmarkResult ==
    /\ ui = UiIdle
    /\ idle # <<>> /\ Head(idle).cb = "_show_benchmark_result"
    /\ idle' = Tail(idle)
    /\ detail' = Head(idle).results
    /\ subtitle' = Head(idle).title
    /\ status' = Status("Benchmark complete", Head(idle).title)
    /\ UNCHANGED <<call, ret, running, launches, settings_file, window, settings,
                   modal, sections_data, selected, loaders, benches, ui, export_file,
                   clipboard, refreshes>>

(***************************************************************************)
(* Calls of the helpers and the collectors.                                *)
(***************************************************************************)
InitIO == Init

CallCmd ==
    \E proc \in {Gives(t) : t \in Texts} \cup {Fails(e) : e \in RunFailures} :
        /\ call' = [fn |-> "_cmd", src |-> proc]
        /\ ret' = Cmd(proc)
        /\ UNCHANGED guiVars

CallReadFile ==
    \E file \in {Gives(t) : t \in Texts} \cup {Fails(e) : e \in OpenFailures} :
        /\ call' = [fn |-> "_read_file", src |-> file]
        /\ ret' = ReadFile(file)
        /\ UNCHANGED guiVars

CallCollectSummary ==
    \E env \in SummaryEnvs :
        /\ Consistent(env.uptime_exists, env.uptime)
        /\ call' = [fn |-> "collect_summary", env |-> env]
        /\ ret' = collect_summary(env)
        /\ UNCHANGED guiVars

CallCollectMemory ==
    \E env \in MemoryEnvs :
        /\ Consistent(env.meminfo_exists, env.meminfo)
        /\ call' = [fn |-> "collect_memory", env |-> env]
        /\ ret' = collect_memory(env)
        /\ UNCHANGED guiVars

CallCollectNetwork ==
    \E env \in NetworkEnvs :
        /\ call' = [fn |-> "collect_network", env |-> env]
        /\ ret' = collect_network(env)
        /\ UNCHANGED guiVars

NextIO ==
    \/ CallCmd
    \/ CallReadFile
    \/ CallCollectSummary
    \/ CallCollectMemory
    \/ CallCollectNetwork

SpecIO == InitIO /\ [][NextIO]_vars

(***************************************************************************)
(* The window while it loads: the threads, the callback, the category      *)
(* list and Refresh.                                                       *)
(***************************************************************************)
Next ==
    \/ Launch
    \/ Activate
    \/ \E i \in 1..NumSections : LoaderCollect(i)
    \/ LoaderPost
    \/ OnLoadDoneBegin
    \/ OnLoadDoneStep
    \/ \E i \in 1..NumSections : OnCatSelected(i)
    \/ OnCatUnselected
    \/ OnRefresh

Spec == Init /\ [][Next]_vars

(***************************************************************************)
(* Loading and Refresh where every started thread gets the processor and   *)
(* the main loop runs every posted callback.                               *)
(***************************************************************************)
NextLive ==
    \/ Launch
    \/ Activate
    \/ \E i \in 1..NumSections : LoaderCollect(i)
    \/ LoaderPost
    \/ OnLoadDoneBegin
    \/ OnLoadDoneStep
    \/ OnRefresh

\* the scheduler runs a thread that can run; the main loop is never blocked
Fairness ==
    /\ \A i \in 1..NumSections : WF_vars(LoaderCollect(i))
    /\ WF_vars(LoaderPost)
    /\ WF_vars(OnLoadDoneBegin)
    /\ WF_vars(OnLoadDoneStep)

SpecLive == Init /\ [][NextLive]_vars /\ Fairness

(***************************************************************************)
(* The welcome dialog over several runs of the program, from the first.    *)
(***************************************************************************)
NextWelcome ==
    \/ Launch
    \/ Activate
    \/ Quit
    \/ ShowWelcome
    \/ OnWelcomeClose
    \/ DismissWelcome
    \/ \E i \in 1..NumSections : LoaderCollect(i)
    \/ LoaderPost
    \/ OnLoadDoneBegin
    \/ OnLoadDoneStep

SpecWelcome == InitFirstRun /\ [][NextWelcome]_vars

(***************************************************************************)
(* Export and Copy while the window loads and reloads.                     *)
(***************************************************************************)
NextExport ==
    \/ Launch
    \/ Activate
    \/ \E i \in 1..NumSections : LoaderCollect(i)
    \/ LoaderPost
    \/ OnLoadDoneBegin
    \/ OnLoadDoneStep
    \/ \E i \in 1..NumSections : OnCatSelected(i)
    \/ OnRefresh
    \/ OnCopySection
    \/ OnExport
    \/ OnExportDone
    \/ OnExportStep

SpecExport == Init /\ [][NextExport]_vars

(***************************************************************************)
(* The benchmark actions.  No benchmark thread is ever started (OnBench),  *)
(* so BenchThreadRun and ShowBenchmarkResult are no steps of the program.  *)
(***************************************************************************)
NextBench ==
    \/ Launch
    \/ Activate
    \/ \E i \in 1..NumSections : LoaderCollect(i)
    \/ LoaderPost
    \/ OnLoadDoneBegin
    \/ OnLoadDoneStep
    \/ OnRefresh
    \/ \E handler \in BenchHandlers : OnBench(handler)

SpecBench == Init /\ [][NextBench]_vars

(***************************************************************************)
(* Properties.                                                             *)
(***************************************************************************)
\* t is s without the whitespace at its two ends
IsStripped(t, s) ==
    \E i \in 0..Len(s) : \E j \in 0..(Len(s) - i) :
        /\ \A k \in 1..i : s[k] \in Whitespace
        /\ \A k \in (Len(s) - j + 1)..Len(s) : s[k] \in Whitespace
        /\ t = SubSeq(s, i + 1, Len(s) - j)
        /\ t # <<>> => (t[1] \notin Whitespace /\ t[Len(t)] \notin Whitespace)

(* C1: _cmd and _read_file never raise.  Whatever subprocess.run or open   *)
(* does (utility missing, timeout, file missing or unreadable), the call   *)
(* returns the empty string; when the source gives text, the call returns  *)
(* that text without its leading and trailing whitespace.                  *)
C1_ReadersNeverRaise ==
    call.fn \in {"_cmd", "_read_file"} =>
        /\ ~ret.raised
        /\ call.src.kind # "ok" => ret.value = <<>>
        /\ call.src.kind = "ok" => IsStripped(ret.value, call.src.text)

\* _cmd was called on a utility that timed out and returned ""
C1_Witness ==
    /\ call.fn = "_cmd"
    /\ call.src.kind = "TimeoutExpired"
    /\ ret = Ret(<<>>)

\* the sources a collector call read, as the two readers gave them
SourcesRead(c) ==
    CASE c.fn = "collect_summary" ->
             {ReadFile(c.env.os_release), Cmd(c.env.who)}
             \cup (IF c.env.uptime_exists THEN {ReadFile(c.env.uptime)} ELSE {})
      [] c.fn = "collect_memory" ->
             {Cmd(c.env.dmi_sudo), Cmd(c.env.dmi)}
             \cup (IF c.env.meminfo_exists THEN {ReadFile(c.env.meminfo)} ELSE {})
      [] c.fn = "collect_network" ->
             {Cmd(c.env.ip), Cmd(c.env.ifconfig), ReadFile(c.env.resolv)}

(* C2: a collector swallows a failed read.  Whenever a source it reads is  *)
(* missing, unreadable or empty (the reader yields ""), the collector      *)
(* raises nothing and returns its (title, icon, mapping) triple, also when *)
(* the pseudo-file exists.                                                 *)
C2_CollectorsSwallowFailedReads ==
    (/\ call.fn \in {"collect_summary", "collect_memory", "collect_network"}
     /\ \E r \in SourcesRead(call) : r.value = <<>>)
    => (~ret.raised /\ Len(ret.value) = 3)

\* collect_summary raised on a /proc/uptime that exists and reads as ""
C2_Witness ==
    /\ call.fn = "collect_summary"
    /\ call.env.uptime_exists
    /\ ReadFile(call.env.uptime) = Ret(<<>>)
    /\ ret = Raise("IndexError")

\* a _load_all thread has stored an entry and has more to store
LoaderMidPass == \E i \in 2..NumSections : loaders[i] > 0

(* C3: _sections_data is accessed under mutual exclusion.  While a         *)
(* _load_all thread is in the middle of its pass, the UI thread is not     *)
(* inside the iteration of _on_load_done, does not clear the dict          *)
(* (_on_refresh) and does not read it to render a category.                *)
C3_SectionsDataExclusive ==
    /\ [](~(ui.op = "count" /\ LoaderMidPass))
    /\ [][(sections_data # <<>> /\ sections_data' = <<>>) => ~LoaderMidPass]_vars
    /\ [][(selected' # selected /\ selected' # 0) => ~LoaderMidPass]_vars

\* the UI thread is inside the sum over _sections_data.values() while a
\* thread started by Refresh is between two stores
C3_Witness ==
    /\ ui.op = "count"
    /\ refreshes >= 1
    /\ LoaderMidPass

\* a _load_all thread took a step; it was its last
ThreadStep == \E i \in 1..(NumSections + 1) : loaders'[i] < loaders[i]

ThreadEnds == loaders'[NumSections + 1] < loaders[NumSections + 1]

FileShown == settings_file.exists /\ settings_file.json.welcome_shown

WelcomePending == \E k \in 1..Len(idle) : idle[k].cb = "_show_welcome"

(* C5: the welcome dialog is governed by welcome_shown.  When the window   *)
(* is created, _show_welcome is scheduled exactly when the settings file   *)
(* does not say welcome_shown; once it is set in the window it is in the   *)
(* file (Get Started writes it before the dialog closes); the file keeps   *)
(* it; and with it in the file the dialog is neither scheduled nor shown.  *)
C5_WelcomeOnce ==
    /\ [][(~window /\ window') => (WelcomePending' <=> ~FileShown)]_vars
    /\ []((window /\ settings.welcome_shown) => (FileShown /\ modal # "welcome"))
    /\ [][FileShown => FileShown']_vars
    /\ []((WelcomePending \/ modal = "welcome") => ~FileShown)

\* the second run after Get Started: the window is there, no dialog is or
\* will be
C5_Witness ==
    /\ launches = 2
    /\ window
    /\ FileShown
    /\ settings.welcome_shown
    /\ modal = "none"
    /\ ~WelcomePending

\* what _load_all can have stored for a collector
StoredEntries(collector) ==
    {IF o.raised
     THEN <<FunctionRepr(collector), "", << <<"Error", o.exc>> >> >>
     ELSE o.value : o \in CollectorOutcomes(collector)}

\* every report with one block for each collector of SECTIONS from index i on
RECURSIVE FullReports(_)
FullReports(i) ==
    IF i > NumSections THEN {<<>>}
    ELSE {ExportBlock(e) \o rest :
              e \in StoredEntries(SECTIONS[i]), rest \in FullReports(i + 1)}

(* C6: an export writes the full report.  When _on_export_done has written *)
(* the file, the status reads 'Report exported to <path>' and the file     *)
(* holds one block for every collector of SECTIONS, in that order: the     *)
(* header with the section's name, then one 'key: value' line per entry,   *)
(* whatever the state of loading.                                          *)
C6_ExportWritesFullReport ==
    [][(ui.op = "export" /\ ui'.op = "idle") =>
          /\ status' = Status("Report exported to", ExportPath)
          /\ export_file'.lines \in FullReports(1)]_vars

\* an export has ended: the file is there with no block in it, a thread is
\* still loading, and the status does not tell of the export
C6_Witness ==
    /\ export_file = [exists |-> TRUE, lines |-> <<>>]
    /\ ui = UiIdle
    /\ modal = "none"
    /\ loaders # NoLoaders
    /\ status.kind # "Report exported to"

\* the number of items of the stored sections
RECURSIVE TotalItems(_)
TotalItems(d) ==
    IF d = <<>> THEN 0 ELSE Len(Head(d)[2][3]) + TotalItems(Tail(d))

AllLoaded == \A i \in 1..NumSections : HasKey(sections_data, SECTIONS[i])

\* no thread runs, no callback waits, no handler is running
Quiescent == loaders = NoLoaders /\ idle = <<>> /\ ui = UiIdle

(* C7: Refresh reloads everything.  With the threads scheduled and the     *)
(* main loop running, from some moment on after the window was made        *)
(* _sections_data holds an entry for every collector and the status, as    *)
(* _on_load_done wrote it last, gives the number of items of all sections, *)
(* however often and whenever Refresh was clicked.                         *)
C7_RefreshReloadsAll ==
    <>[](window =>
           /\ AllLoaded
           /\ Quiescent
           /\ status = Status("items loaded", TotalItems(sections_data)))

\* after a Refresh everything is loaded again and counted
C7_Witness ==
    /\ window
    /\ refreshes >= 1
    /\ Quiescent
    /\ AllLoaded
    /\ status = Status("items loaded", TotalItems(sections_data))

(* C8: one collector's failure does not affect the others.  The turn of    *)
(* _load_all for a collector stores, under that collector, its result or,  *)
(* when it raised, an entry whose mapping is Error -> the exception's      *)
(* text; it leaves the other collectors' entries alone, posts nothing and  *)
(* goes on to the next collector of SECTIONS; after the last collector the *)
(* thread posts _on_load_done, once.                                       *)
C8_FailureIsolated ==
    [][/\ \A i \in 1..NumSections :
              loaders'[i] < loaders[i] =>
                  /\ loaders' = [loaders EXCEPT ![i] = @ - 1, ![i + 1] = @ + 1]
                  /\ HasKey(sections_data', SECTIONS[i])
                  /\ DictGet(sections_data', SECTIONS[i], <<>>)
                         \in StoredEntries(SECTIONS[i])
                  /\ \A j \in 1..NumSections \ {i} :
                         /\ HasKey(sections_data', SECTIONS[j])
                                <=> HasKey(sections_data, SECTIONS[j])
                         /\ DictGet(sections_data', SECTIONS[j], <<>>)
                                = DictGet(sections_data, SECTIONS[j], <<>>)
                  /\ idle' = idle
       /\ ThreadEnds =>
              /\ loaders' = [loaders EXCEPT ![NumSections + 1] = @ - 1]
              /\ sections_data' = sections_data
              /\ idle' = Append(idle, [cb |-> "_on_load_done"])]_vars

\* a pass in which the first collector raised and the second did not: both
\* entries are stored and the one callback is posted
C8_Witness ==
    /\ loaders = NoLoaders
    /\ idle = <<[cb |-> "_on_load_done"]>>
    /\ refreshes = 0
    /\ DictGet(sections_data, SECTIONS[1], <<>>)
           = <<FunctionRepr(SECTIONS[1]), "", << <<"Error", "boom">> >> >>
    /\ DictGet(sections_data, SECTIONS[2], <<>>)
           \in {o.value : o \in {p \in CollectorOutcomes(SECTIONS[2]) : ~p.raised}}

\* what the detail list shows for category i of data d
Rendered(d, i) ==
    IF HasKey(d, SECTIONS[i])
    THEN SelectSeq(DictGet(d, SECTIONS[i], <<>>)[3],
                   LAMBDA row : ~(row[1] = "" /\ row[2] = ""))
    ELSE << <<"Loading...", "">> >>

(* C9: a category with no entry shows the placeholder.  Selecting a        *)
(* category renders one row 'Loading...' when _sections_data has no entry  *)
(* for it and its rows otherwise; every run of _on_load_done renders the   *)
(* selected category anew; and once the last pass is done the detail list  *)
(* shows the selected category's data, not the placeholder.                *)
C9_PlaceholderThenData ==
    /\ [][(selected' # selected /\ selected' # 0)
              => detail' = Rendered(sections_data', selected')]_vars
    /\ [][(ui.op = "count" /\ ui'.op = "idle" /\ selected # 0)
              => detail' = Rendered(sections_data', selected')]_vars
    /\ []((window /\ Quiescent /\ selected # 0) =>
              /\ HasKey(sections_data, SECTIONS[selected])
              /\ detail = Rendered(sections_data, selected))

(* C10: every benchmark is reported.  Activating bench-cpu, bench-mem or   *)
(* bench-disk while the window exists sets the status to 'Running          *)
(* benchmark: <title>...' and starts one thread for the benchmark, whose   *)
(* result _show_benchmark_result then shows; with no window nothing        *)
(* happens.                                                                *)
C10_BenchmarkStarts ==
    [][\A handler \in BenchHandlers :
           (call' = [fn |-> handler] /\ call' # call) =>
               IF window
               THEN /\ status' = Status("Running benchmark", BenchTitle(handler))
                    /\ Len(benches') = Len(benches) + 1
               ELSE UNCHANGED <<status, benches, idle, detail, subtitle>>]_vars

\* bench-cpu was activated with the window there: the handler raised, the
\* status is not of a benchmark and no thread runs one
C10_Witness ==
    /\ window
    /\ call = [fn |-> "_on_bench_cpu"]
    /\ ret = Raise("TypeError")
    /\ status.kind # "Running benchmark"
    /\ benches = <<>>

(***************************************************************************)
(* _show_section applied to a stored section of any mapping.               *)
(***************************************************************************)
MaxInfoLen == 3

InfoKeys == {"", "k1", "k2", "k3"}

InfoValues == {"", "v1"}

\* every mapping of at most MaxInfoLen entries: a dict has each key once
Infos ==
    {info \in UNION {[1..n -> InfoKeys \X InfoValues] : n \in 0..MaxInfoLen} :
        \A i, j \in 1..Len(info) : i # j => info[i][1] # info[j][1]}

\* self._show_section(collector) with the section stored, over whatever the
\* detail list showed before
CallShowSection ==
    \E i \in 1..NumSections : \E info \in Infos :
        LET s == AllSections[SectionIndex(SECTIONS[i])]
            data == DictSet(<<>>, SECTIONS[i], <<s[2], s[3], info>>)
        IN  /\ call' = [fn |-> "_show_section", collector |-> SECTIONS[i],
                        info |-> info]
            /\ ret' = Ret(<<>>)
            /\ detail' = ShowSectionDetail(data, SECTIONS[i])
            /\ subtitle' = ShowSectionSubtitle(data, SECTIONS[i], subtitle)
            /\ UNCHANGED <<running, launches, settings_file, window, settings,
                           modal, sections_data, selected, status, loaders, benches,
                           idle, ui, export_file, clipboard, refreshes>>

NextRender == CallShowSection

SpecRender == Init /\ [][NextRender]_vars

\* the entries of a mapping that are no separator, as a set of indices
NoSeparator(info) ==
    {i \in 1..Len(info) : ~(info[i][1] = "" /\ info[i][2] = "")}

(* C11: the detail view renders a section's mapping faithfully.  After     *)
(* _show_section for a stored section, the detail list holds nothing of    *)
(* what it showed before and exactly one row for every entry that is not   *)
(* the separator ("" -> ""), in the mapping's order, the key as title and  *)
(* the value as subtitle: no other entry is dropped, merged or reordered.  *)
C11_RowsMatchMapping ==
    call.fn = "_show_section" =>
        \E f \in [1..Len(detail) -> 1..Len(call.info)] :
            /\ \A m, n \in 1..Len(detail) : m < n => f[m] < f[n]
            /\ {f[n] : n \in 1..Len(detail)} = NoSeparator(call.info)
            /\ \A n \in 1..Len(detail) :
                   /\ detail[n][1] = call.info[f[n]][1]
                   /\ detail[n][2] = call.info[f[n]][2]

\* a mapping with a separator and a heading without value, as
\* collect_storage builds it, was rendered: two rows, the heading kept
C11_Witness ==
    /\ call.fn = "_show_section"
    /\ call.info = << <<"k1", "v1">>, <<"", "">>, <<"k2", "">> >>
    /\ detail = << <<"k1", "v1">>, <<"k2", "">> >>

(***************************************************************************)
(* The device collectors.                                                  *)
(***************************************************************************)
\* a in line, for a text a that is one atom of the line
Contains(line, a) == \E i \in 1..Len(line) : line[i] = a

\* str.split(sep, 2)[-1]
Split2Last(s, sep) ==
    LET first == Split1(s, sep)
    IN  IF Len(first) = 1 THEN s
        ELSE LET second == Split1(first[2], sep)
             IN  second[Len(second)]

\* s[:n] and s[n:] of a text whose atoms are single characters
SliceTo(s, n) == SubSeq(s, 1, IF Len(s) < n THEN Len(s) ELSE n)

SliceFrom(s, n) == SubSeq(s, n + 1, Len(s))

\* the loop of collect_gpu over the lines of lspci
RECURSIVE GpuLspci(_, _)
GpuLspci(lines, info) ==
    IF lines = <<>> THEN info
    ELSE LET line == Head(lines)
         IN  IF Contains(line, "VGA") \/ Contains(line, "3D") \/ Contains(line, "Display")
             THEN GpuLspci(Tail(lines),
                           DictSet(info, <<"GPU">>,
                                   IF Contains(line, ":")
                                   THEN Strip(Split2Last(line, ":"))
                                   ELSE line))
             ELSE GpuLspci(Tail(lines), info)

\* line.split(sep, 1)[1].strip()
AfterSep(line, sep) ==
    LET parts == Split1(line, sep)
    IN  IF Len(parts) < 2 THEN Raise("IndexError") ELSE Ret(Strip(parts[2]))

\* the loop of collect_gpu over the lines of glxinfo: the version ends it
RECURSIVE GpuGlx(_, _)
GpuGlx(lines, info) ==
    IF lines = <<>> THEN Ret(info)
    ELSE LET line == Head(lines)
             renderer == AfterSep(line, ":")
             i1 == IF Contains(line, "OpenGL renderer")
                   THEN DictSet(info, <<"OpenGL renderer">>, renderer.value)
                   ELSE info
         IN  IF Contains(line, "OpenGL renderer") /\ renderer.raised THEN renderer
             ELSE IF Contains(line, "OpenGL version")
             THEN (IF AfterSep(line, ":").raised THEN AfterSep(line, ":")
                   ELSE Ret(DictSet(i1, <<"OpenGL version">>, AfterSep(line, ":").value)))
             ELSE GpuGlx(Tail(lines), i1)

\* the loop of collect_gpu over the lines of vulkaninfo: the API version ends it
RECURSIVE GpuVulkan(_, _)
GpuVulkan(lines, info) ==
    IF lines = <<>> THEN Ret(info)
    ELSE LET line == Head(lines)
             device == AfterSep(line, "=")
             i1 == IF Contains(line, "deviceName")
                   THEN DictSet(info, <<"Vulkan device">>, device.value)
                   ELSE info
         IN  IF Contains(line, "deviceName") /\ device.raised THEN device
             ELSE IF Contains(line, "apiVersion") /\ Contains(line, "=")
             THEN Ret(DictSet(i1, <<"Vulkan API">>, AfterSep(line, "=").value))
             ELSE GpuVulkan(Tail(lines), i1)

GpuPlaceholder == << <<"GPU">>, <<"No GPU detected (lspci not available?)">> >>

collect_gpu(env) ==
    LET lspci == Cmd(env.lspci).value
        i1 == IF lspci # <<>> THEN GpuLspci(SplitLines(lspci), <<>>) ELSE <<>>
        glx == Cmd(env.glx).value
        i2 == IF glx # <<>> THEN GpuGlx(SplitLines(glx), i1) ELSE Ret(i1)
        vulkan == Cmd(env.vulkan).value
        i3 == IF i2.raised THEN i2
              ELSE IF vulkan # <<>> THEN GpuVulkan(SplitLines(vulkan), i2.value)
              ELSE i2
    IN  IF i3.raised THEN i3
        ELSE Ret(<<"Graphics", "video-display-symbolic",
                   IF i3.value = <<>> THEN <<GpuPlaceholder>> ELSE i3.value>>)

\* line[:8] and line[8:] of collect_pci
PciSliceAt == 8

\* the loop of collect_pci over the lines of lspci -mm
RECURSIVE PciInfo(_, _)
PciInfo(lines, info) ==
    IF lines = <<>> THEN info
    ELSE LET line == Head(lines)
             parts == SplitOn(line, "\"")
         IN  IF Len(parts) >= 6
             THEN PciInfo(Tail(lines),
                          DictSet(info, Strip(parts[1]),
                                  parts[2] \o <<":", " ">> \o parts[4] \o <<" ">>
                                  \o parts[6]))
             ELSE PciInfo(Tail(lines),
                          DictSet(info, SliceTo(line, PciSliceAt),
                                  Strip(SliceFrom(line, PciSliceAt))))

PciPlaceholder == << <<"PCI">>, <<"lspci not available">> >>

collect_pci(env) ==
    LET lspci == Cmd(env.lspci_mm).value
    IN  Ret(<<"PCI Devices", "expansion-card-symbolic",
              IF lspci # <<>> THEN PciInfo(SplitLines(lspci), <<>>)
              ELSE <<PciPlaceholder>> >>)

\* the words \d+ matches in the sample texts
DigitWords == {"001", "002"}

\* re.match(r'Bus (\d+) Device (\d+): ID (\S+) (.*)', line)
UsbMatch(line) ==
    /\ Len(line) >= 13
    /\ line[1] = "Bus" /\ line[2] = " " /\ line[3] \in DigitWords /\ line[4] = " "
    /\ line[5] = "Device" /\ line[6] = " " /\ line[7] \in DigitWords
    /\ line[8] = ":" /\ line[9] = " " /\ line[10] = "ID" /\ line[11] = " "
    /\ line[12] \notin Whitespace /\ line[13] = " "

\* line[:20] and line[20:] of collect_usb
UsbSliceAt == 20

\* the loop of collect_usb over the lines of lsusb
RECURSIVE UsbInfo(_, _)
UsbInfo(lines, info) ==
    IF lines = <<>> THEN info
    ELSE LET line == Head(lines)
         IN  IF UsbMatch(line)
             THEN UsbInfo(Tail(lines),
                          DictSet(info, <<"Bus", " ", line[3], " ", "Dev", " ", line[7]>>,
                                  <<line[12], " ">> \o SubSeq(line, 14, Len(line))))
             ELSE UsbInfo(Tail(lines),
                          DictSet(info, SliceTo(line, UsbSliceAt),
                                  SliceFrom(line, UsbSliceAt)))

UsbPlaceholder == << <<"USB">>, <<"lsusb not available">> >>

collect_usb(env) ==
    LET lsusb == Cmd(env.lsusb).value
    IN  Ret(<<"USB Devices", "drive-removable-media-symbolic",
              IF lsusb # <<>> THEN UsbInfo(SplitLines(lsusb), <<>>)
              ELSE <<UsbPlaceholder>> >>)

\* the loop of collect_sensors over the lines of sensors
RECURSIVE SensorsInfo(_, _, _)
SensorsInfo(lines, current_chip, info) ==
    IF lines = <<>> THEN info
    ELSE LET line == Head(lines)
         IN  IF ~StartsWith(line, <<" ">>) /\ Strip(line) # <<>> /\ ~Contains(line, ":")
             THEN SensorsInfo(Tail(lines), Strip(line), info)
             ELSE IF Contains(line, ":")
             THEN LET name == Strip(Split1(line, ":")[1])
                      val == Strip(Split1(line, ":")[2])
                  IN  SensorsInfo(Tail(lines), current_chip,
                                  DictSet(info,
                                          IF current_chip # <<>>
                                          THEN current_chip \o <<" / ">> \o name
                                          ELSE name,
                                          val))
             ELSE SensorsInfo(Tail(lines), current_chip, info)

\* int(s) of the words of the hwmon samples
TempIntOf == ("45000" :> 45000) @@ ("38500" :> 38500) @@ IntOf

\* f"{temp:.1f} degC" of int(text) / 1000, for a whole number of tenths
TempText(word) ==
    <<ToString(TempIntOf[word] \div 1000), ".",
      ToString((TempIntOf[word] % 1000) \div 100), " degC">>

\* the loop over the temp*_input files of one hwmon directory: whatever
\* int() raises on is passed over
RECURSIVE HwmonTemps(_, _, _)
HwmonTemps(chip_name, temps, info) ==
    IF temps = <<>> THEN info
    ELSE LET t == Head(temps)
             text == ReadFile(t.input).value
             label == ReadFile(t.label).value
         IN  IF Len(text) = 1 /\ text[1] \in DOMAIN TempIntOf
             THEN HwmonTemps(chip_name, Tail(temps),
                             DictSet(info,
                                     chip_name \o <<" / ">>
                                     \o (IF label # <<>> THEN label ELSE <<t.basename>>),
                                     TempText(text[1])))
             ELSE HwmonTemps(chip_name, Tail(temps), info)

\* the loop over /sys/class/hwmon/hwmon*
RECURSIVE HwmonInfo(_, _)
HwmonInfo(hwmons, info) ==
    IF hwmons = <<>> THEN info
    ELSE HwmonInfo(Tail(hwmons),
                   HwmonTemps(ReadFile(Head(hwmons).name).value, Head(hwmons).temps,
                              info))

SensorsPlaceholder == << <<"Sensors">>, <<"No sensor data available">> >>

collect_sensors(env) ==
    LET sensors == Cmd(env.sensors).value
        info == IF sensors # <<>> THEN SensorsInfo(SplitLines(sensors), <<>>, <<>>)
                ELSE HwmonInfo(env.hwmons, <<>>)
    IN  Ret(<<"Sensors", "sensors-temperature-symbolic",
              IF info = <<>> THEN <<SensorsPlaceholder>> ELSE info>>)

\* health = int(energy_full) * 100 // int(energy_design)
BatteryHealth(energy_full, energy_design) ==
    IF ~IsInt(energy_full) \/ ~IsInt(energy_design) THEN Raise("ValueError")
    ELSE IF IntOf[energy_design[1]] = 0 THEN Raise("ZeroDivisionError")
    ELSE Ret(<<ToString((IntOf[energy_full[1]] * 100) \div IntOf[energy_design[1]]),
               "%">>)

\* the loop of collect_battery over os.listdir(bat_path); " -- " is the
\* atom of the dash between the battery's name and the label
RECURSIVE BatteryInfo(_, _)
BatteryInfo(supplies, info) ==
    IF supplies = <<>> THEN Ret(info)
    ELSE LET bat == Head(supplies)
             bat_status == ReadFile(bat.status).value
             capacity == ReadFile(bat.capacity).value
             energy_full == ReadFile(bat.energy_full).value
             energy_design == ReadFile(bat.energy_full_design).value
             tech == ReadFile(bat.technology).value
             i1 == DictSet(info, <<bat.name, " -- ", "Status">>,
                           IF bat_status # <<>> THEN bat_status ELSE <<"Unknown">>)
             i2 == IF capacity # <<>>
                   THEN DictSet(i1, <<bat.name, " -- ", "Capacity">>, capacity \o <<"%">>)
                   ELSE i1
             i3 == IF tech # <<>>
                   THEN DictSet(i2, <<bat.name, " -- ", "Technology">>, tech)
                   ELSE i2
             health == BatteryHealth(energy_full, energy_design)
         IN  IF ReadFile(bat.type).value # <<"Battery">>
             THEN BatteryInfo(Tail(supplies), info)
             ELSE IF energy_full # <<>> /\ energy_design # <<>>
             THEN (IF health.raised THEN health
                   ELSE BatteryInfo(Tail(supplies),
                                    DictSet(i3, <<bat.name, " -- ", "Health">>,
                                            health.value)))
             ELSE BatteryInfo(Tail(supplies), i3)

BatteryPlaceholder == << <<"Battery">>, <<"No battery detected">> >>

collect_battery(env) ==
    LET info == IF env.isdir THEN BatteryInfo(env.supplies, <<>>) ELSE Ret(<<>>)
    IN  IF info.raised THEN info
        ELSE Ret(<<"Battery", "battery-symbolic",
                   IF info.value = <<>> THEN <<BatteryPlaceholder>> ELSE info.value>>)

(***************************************************************************)
(* The sources the device collectors are applied to.                       *)
(***************************************************************************)
MaxDevices == 1

LspciText ==
    <<"00", ":", "02.0", " ", "VGA", " ", "compatible controller", ":", " ",
      "Intel UHD", "\n", "00", ":", "1f.3", " ", "Audio device", ":", " ", "Intel HDA">>

GlxText ==
    <<"OpenGL renderer", " ", "string", ":", " ", "Mesa Intel", "\n",
      "OpenGL version", " ", "string", ":", " ", "4.6">>

\* a renderer line without a colon
GlxNoColonText == <<"OpenGL renderer", " ", "string", " ", "unknown">>

VulkanText ==
    <<"deviceName", " ", "=", " ", "Intel UHD", "\n", "apiVersion", " ", "=", " ", "1.3">>

\* a device line without an equals sign
VulkanNoEqualsText == <<"deviceName", ":", " ", "llvmpipe">>

LspciMmText ==
    <<"00:02.0", " ", "\"", "VGA", "\"", " ", "\"", "Intel", "\"", " ", "\"", "UHD", "\"">>

\* a line lspci -mm's format does not cover, character by character
PciRawText == <<"p", "c", "i", "l", "i", "b", ":", " ", "n", "o">>

LsusbText ==
    <<"Bus", " ", "001", " ", "Device", " ", "002", ":", " ", "ID", " ", "1d6b:0002",
      " ", "Linux Foundation", " ", "hub">>

\* a line the pattern does not match, character by character
UsbRawText == <<"u", "s", "b">>

SensorsText ==
    <<"coretemp-isa-0000", "\n", "Core 0", ":", " ", " ", "+45.0 degC", "\n", "\n",
      "Core 1", ":", " ", "+38.5 degC">>

\* output with no reading in it
SensorsNoDataText == <<"No sensors found!">>

\* a utility run: one of its outputs, no output, or a failure
ProcOutcomesOf(texts) ==
    {Gives(t) : t \in texts \cup {<<>>}} \cup {Fails(e) : e \in RunFailures}

GpuEnvs ==
    {[lspci |-> lspci, glx |-> glx, vulkan |-> vulkan] :
        lspci \in ProcOutcomes(LspciText),
        glx \in ProcOutcomesOf({GlxText, GlxNoColonText}),
        vulkan \in ProcOutcomesOf({VulkanText, VulkanNoEqualsText})}

PciEnvs == {[lspci_mm |-> o] : o \in ProcOutcomesOf({LspciMmText, PciRawText})}

UsbEnvs == {[lsusb |-> o] : o \in ProcOutcomesOf({LsusbText, UsbRawText})}

\* the temp*_input files of a hwmon directory
HwmonTempFiles ==
    {[basename |-> "temp1_input", input |-> input, label |-> label] :
        input \in {Gives(<<"45000">>), Gives(<<"38500">>), Gives(<<>>),
                   Fails("PermissionError")},
        label \in {Gives(<<"Package">>), Fails("FileNotFoundError")}}

Hwmons ==
    {[name |-> name, temps |-> temps] :
        name \in {Gives(<<"coretemp">>), Fails("FileNotFoundError")},
        temps \in UNION {[1..n -> HwmonTempFiles] : n \in 0..MaxDevices}}

SensorsEnvs ==
    {[sensors |-> sensors, hwmons |-> hwmons] :
        sensors \in ProcOutcomesOf({SensorsText, SensorsNoDataText}),
        hwmons \in UNION {[1..n -> Hwmons] : n \in 0..MaxDevices}}

\* the directories of /sys/class/power_supply
PowerSupplies ==
    {[name |-> "BAT0", type |-> type, status |-> bat_status, capacity |-> capacity,
      energy_full |-> energy_full, energy_full_design |-> energy_full_design,
      technology |-> technology] :
        type \in {Gives(<<"Battery">>), Gives(<<"Mains">>), Fails("PermissionError")},
        bat_status \in {Gives(<<"Charging">>), Gives(<<>>)},
        capacity \in {Gives(<<"80">>), Fails("FileNotFoundError")},
        energy_full \in {Gives(<<"1048576">>), Fails("FileNotFoundError")},
        energy_full_design \in {Gives(<<"2097152">>), Gives(<<"0">>),
                                Fails("FileNotFoundError")},
        technology \in {Gives(<<"Li-ion">>), Gives(<<>>)}}

BatteryEnvs ==
    {[isdir |-> isdir, supplies |-> supplies] :
        isdir \in BOOLEAN,
        supplies \in UNION {[1..n -> PowerSupplies] : n \in 0..MaxDevices}}

(***************************************************************************)
(* Calls of the device collectors.                                         *)
(***************************************************************************)
CallCollectGpu ==
    \E env \in GpuEnvs :
        /\ call' = [fn |-> "collect_gpu", env |-> env]
        /\ ret' = collect_gpu(env)
        /\ UNCHANGED guiVars

CallCollectPci ==
    \E env \in PciEnvs :
        /\ call' = [fn |-> "collect_pci", env |-> env]
        /\ ret' = collect_pci(env)
        /\ UNCHANGED guiVars

CallCollectUsb ==
    \E env \in UsbEnvs :
        /\ call' = [fn |-> "collect_usb", env |-> env]
        /\ ret' = collect_usb(env)
        /\ UNCHANGED guiVars

CallCollectSensors ==
    \E env \in SensorsEnvs :
        /\ call' = [fn |-> "collect_sensors", env |-> env]
        /\ ret' = collect_sensors(env)
        /\ UNCHANGED guiVars

CallCollectBattery ==
    \E env \in BatteryEnvs :
        /\ env.isdir \/ env.supplies = <<>>
        /\ call' = [fn |-> "collect_battery", env |-> env]
        /\ ret' = collect_battery(env)
        /\ UNCHANGED guiVars

NextDevices ==
    \/ CallCollectGpu
    \/ CallCollectPci
    \/ CallCollectUsb
    \/ CallCollectSensors
    \/ CallCollectBattery

SpecDevices == Init /\ [][NextDevices]_vars

\* the placeholder entry of each device collector
Placeholder(fn) ==
    CASE fn = "collect_gpu" -> << <<"GPU">>, <<"No GPU detected (lspci not available?)">> >>
      [] fn = "collect_sensors" -> << <<"Sensors">>, <<"No sensor data available">> >>
      [] fn = "collect_battery" -> << <<"Battery">>, <<"No battery detected">> >>
      [] fn = "collect_pci" -> << <<"PCI">>, <<"lspci not available">> >>
      [] fn = "collect_usb" -> << <<"USB">>, <<"lsusb not available">> >>

\* the call's sources gave nothing at all: every utility failed or printed
\* nothing, and there is no hwmon directory and no power supply
NoDeviceSource(c) ==
    CASE c.fn = "collect_gpu" ->
             Cmd(c.env.lspci).value = <<>> /\ Cmd(c.env.glx).value = <<>>
             /\ Cmd(c.env.vulkan).value = <<>>
      [] c.fn = "collect_sensors" ->
             Cmd(c.env.sensors).value = <<>> /\ c.env.hwmons = <<>>
      [] c.fn = "collect_battery" -> c.env.supplies = <<>>
      [] c.fn = "collect_pci" -> Cmd(c.env.lspci_mm).value = <<>>
      [] c.fn = "collect_usb" -> Cmd(c.env.lsusb).value = <<>>

(* C12: the device collectors never return an empty mapping.  Whatever     *)
(* their utilities and files give, collect_gpu, collect_sensors,           *)
(* collect_battery, collect_pci and collect_usb return a triple whose      *)
(* mapping has at least one entry; the placeholder entry is never next to  *)
(* device data, and it is the mapping when the sources gave nothing.       *)
C12_DeviceMappingNeverEmpty ==
    call.fn \in {"collect_gpu", "collect_sensors", "collect_battery", "collect_pci",
                 "collect_usb"} =>
        /\ ~ret.raised
        /\ Len(ret.value) = 3
        /\ Len(ret.value[3]) >= 1
        /\ (\E i \in 1..Len(ret.value[3]) : ret.value[3][i] = Placeholder(call.fn))
               => Len(ret.value[3]) = 1
        /\ NoDeviceSource(call) => ret.value[3] = <<Placeholder(call.fn)>>

\* collect_battery raised on a battery whose energy_full_design reads 0
C12_Witness ==
    /\ call.fn = "collect_battery"
    /\ ret = Raise("ZeroDivisionError")

====
